---- MODULE Spec2Model ----
(***************************************************************************)
(* The in-memory block cache of libkbfs (BlockCacheStandard, bcache.go).   *)
(*                                                                         *)
(* Every exported method is a sequence of steps, one per access to shared  *)
(* state (an LRU call, a critical section of a mutex, an atomic load or    *)
(* store).  Threads interleave between steps.  The two LRUs are the        *)
(* hashicorp/golang-lru caches: each call is atomic under the LRU's own    *)
(* mutex, and the eviction callback runs inside the call, with that mutex  *)
(* still held.                                                             *)
(***************************************************************************)
EXTENDS Integers, Sequences, FiniteSets, TLC

\* ------------------------------------------------------------------ bounds
MaxID == 3
MaxTransientCapacity == 2
MaxBytesCapacity == 3
NumTlfs == 2
NumThreads == 2
MaxConcurrentCalls == 3

IDs == 1..MaxID
Tlfs == 1..NumTlfs
Threads == 1..NumThreads
Capacities == 0..MaxBytesCapacity

\* ------------------------------------------------------------------ blocks
ZeroRefNonce == 0
RefNonces == {ZeroRefNonce, 1}

NoBlock == [kind |-> "nil", IsInd |-> FALSE, Contents |-> <<>>, EncodedSize |-> 0]

FileBlockDirect(contents) ==
    [kind |-> "FileBlock", IsInd |-> FALSE, Contents |-> contents,
     EncodedSize |-> Len(contents) + 1]

FileBlockIndirect(encSize) ==
    [kind |-> "FileBlock", IsInd |-> TRUE, Contents |-> <<>>, EncodedSize |-> encSize]

DirBlock(encSize) ==
    [kind |-> "DirBlock", IsInd |-> FALSE, Contents |-> <<>>, EncodedSize |-> encSize]

CommonBlock == [kind |-> "CommonBlock", IsInd |-> FALSE, Contents |-> <<>>, EncodedSize |-> 1]

UnknownBlock == [kind |-> "Unknown", IsInd |-> FALSE, Contents |-> <<>>, EncodedSize |-> 1]

\* The blocks a caller hands to the cache under a given block ID.  A block
\* ID is derived from the block, so an ID comes with blocks of one size
\* (the assumption PutWithPrefetch documents).
BlocksOf(id) ==
    CASE id = 1 -> {FileBlockDirect(<<7>>)}
      [] id = 2 -> {FileBlockDirect(<<7>>)}
      [] id = 3 -> {FileBlockDirect(<<7, 9>>), DirBlock(2)}
      [] OTHER  -> {FileBlockIndirect(1)}

RejectedBlocks == {CommonBlock, UnknownBlock}

\* The *FileBlock arguments of CheckForKnownPtr and DeleteKnownPtr.
FileBlocks ==
    {b \in UNION {BlocksOf(id) : id \in IDs} : b.kind = "FileBlock"} \cup {FileBlockIndirect(1)}

IsDirectFileBlock(block) == block.kind = "FileBlock" /\ ~block.IsInd

\* kbfshash.DoRawDefaultHash: a digest of the plaintext (length and bytes).
RECURSIVE DoRawDefaultHash(_)
DoRawDefaultHash(contents) ==
    IF contents = <<>> THEN 1
    ELSE (Head(contents) + 31 * DoRawDefaultHash(Tail(contents))) % 65536

\* FileBlock.GetHash: the (cached) digest of the block's plaintext.
GetHash(block) == DoRawDefaultHash(block.Contents)

idCacheKey(tlf, hash) == [tlf |-> tlf, plaintextHash |-> hash]

BlockPointer(id, refNonce) == [ID |-> id, RefNonce |-> refNonce]

\* BlockPointer{}: the zero pointer CheckForKnownPtr returns for "absent".
NoPtr == BlockPointer(0, ZeroRefNonce)

blockContainer(block, hasPrefetched) == [block |-> block, hasPrefetched |-> hasPrefetched]

getCachedBlockSize(block) ==
    IF block.kind = "FileBlock"
    THEN IF block.IsInd THEN block.EncodedSize ELSE Len(block.Contents)
    ELSE block.EncodedSize

\* --------------------------------------------------------------------- LRU
\* An lru.Cache is a sequence of entries, least recently used first.
LruEntry(key, value) == [key |-> key, value |-> value]

LruKeys(c) == {c[i].key : i \in 1..Len(c)}

LruContains(c, key) == key \in LruKeys(c)

LruValue(c, key) == (CHOOSE e \in {c[i] : i \in 1..Len(c)} : e.key = key).value

LruWithout(c, key) == SelectSeq(c, LAMBDA e : e.key # key)

\* A Get that leaves the order of use as it was.
LruTouch_Kept(c, key) == c

\* Cache.Get on a hit: the entry moves to the most recently used end.
LruTouch(c, key) == LruWithout(c, key) \o <<LruEntry(key, LruValue(c, key))>>

\* An Add that lets the cache grow past its capacity.
LruAdd_Unbounded(c, key, value, capacity) ==
    [cache |-> LruWithout(c, key) \o <<LruEntry(key, value)>>, evicted |-> <<>>]

\* Cache.Add: an existing key is updated in place and refreshed, with no
\* eviction; a new key is appended and, over capacity, the oldest entry is
\* evicted.  Returns the cache and the evicted entries (none or one).
LruAdd(c, key, value, capacity) ==
    IF LruContains(c, key)
    THEN [cache |-> LruWithout(c, key) \o <<LruEntry(key, value)>>, evicted |-> <<>>]
    ELSE LET grown == c \o <<LruEntry(key, value)>>
         IN  IF Len(grown) > capacity
             THEN [cache |-> Tail(grown), evicted |-> <<Head(grown)>>]
             ELSE [cache |-> grown, evicted |-> <<>>]

\* Cache.RemoveOldest: nothing happens on an empty cache.
LruRemoveOldest(c) ==
    IF c = <<>>
    THEN [cache |-> c, evicted |-> <<>>]
    ELSE [cache |-> Tail(c), evicted |-> <<Head(c)>>]

\* Cache.Remove: nothing happens when the key is absent.
LruRemove(c, key) ==
    IF LruContains(c, key)
    THEN [cache |-> LruWithout(c, key), evicted |-> <<LruEntry(key, LruValue(c, key))>>]
    ELSE [cache |-> c, evicted |-> <<>>]

\* ------------------------------------------------------------------- state
VARIABLES
    transientCapacity,   \* the constructor's transientCapacity argument
    cleanBytesCapacity,  \* b.cleanBytesCapacity (atomic word)
    ids,                 \* b.ids: LRU from idCacheKey to BlockPointer
    cleanTransient,      \* b.cleanTransient: LRU from block ID to blockContainer
    cleanPermanent,      \* b.cleanPermanent: map from block ID to Block (NoBlock: no entry)
    cleanTotalBytes,     \* b.cleanTotalBytes
    bytesLock,           \* holder of b.bytesLock, 0 when free
    cleanLock,           \* writer holding b.cleanLock, 0 when free
    lruLock,             \* holder of cleanTransient's internal mutex, 0 when free
    th,                  \* per thread: position, arguments, locals, result
    calls,               \* the methods called so far, where callers are bounded
    hist                 \* history of the completed calls, where it is recorded

vars == <<transientCapacity, cleanBytesCapacity, ids, cleanTransient, cleanPermanent,
          cleanTotalBytes, bytesLock, cleanLock, lruLock, th, calls, hist>>

cacheVars == <<ids, cleanTransient, cleanPermanent, cleanTotalBytes>>

\* b.ids != nil and b.cleanTransient != nil: both are built together, only
\* for a positive transient capacity.
\* A constructor that builds the two LRUs whatever transientCapacity is.
HasTransient_Always == TRUE

HasTransient == transientCapacity > 0

NoResult == [err |-> "nil", block |-> NoBlock, hasPrefetched |-> FALSE,
             lifetime |-> "NoCacheEntry", ptr |-> NoPtr]

Failed(err) == [NoResult EXCEPT !.err = err]

IdleLocal ==
    [pc |-> "idle", op |-> "none", ptr |-> NoPtr, tlf |-> 0, block |-> NoBlock,
     lifetime |-> "NoCacheEntry", hasPrefetched |-> FALSE, capacity |-> 0,
     wasInCache |-> FALSE, oldLen |-> 0, cleanBytesCapacity |-> 0,
     transientCacheHasRoom |-> TRUE, evicted |-> NoBlock, res |-> NoResult,
     argHasPrefetched |-> FALSE, bytesAtCall |-> 0, knownAtCall |-> FALSE,
     doubleInsert |-> FALSE]

Return(l, res) == [l EXCEPT !.pc = "done", !.res = res]

\* What has happened in the calls completed so far: whether the capacity
\* was set, the block ID of the latest successful TransientEntry put with
\* hasPrefetched = true, and that ID for as long as its entry has stayed in
\* the transient cache (0: none).
\* The history also lists the IDs in the transient cache by their latest
\* use (a successful TransientEntry put or a Get that hit the transient
\* cache), oldest first.
\* A caller that repeats a put notes, when the first put returns, its
\* arguments, its error and the contents of the cache.
NoRepeat ==
    [pending |-> FALSE, id |-> 0, tlf |-> 0, block |-> NoBlock, lifetime |-> "NoCacheEntry",
     hasPrefetched |-> FALSE, err |-> "nil", transient |-> {}, permanent |-> <<>>,
     ids |-> {}, bytes |-> 0]

NoHistory ==
    [capacitySet |-> FALSE, prefetched |-> 0, prefetchedResident |-> 0, repeat |-> NoRepeat,
     recency |-> <<>>]

\* NewBlockCacheStandard(transientCapacity, cleanBytesCapacity)
New(capacities) ==
    /\ transientCapacity \in 0..MaxTransientCapacity
    /\ cleanBytesCapacity \in capacities
    /\ ids = <<>>
    /\ cleanTransient = <<>>
    /\ cleanPermanent = [id \in IDs |-> NoBlock]
    /\ cleanTotalBytes = 0
    /\ bytesLock = 0
    /\ cleanLock = 0
    /\ lruLock = 0
    /\ th = [t \in Threads |-> IdleLocal]
    /\ calls = 0
    /\ hist = NoHistory

\* One thread's local record.
Local(t) == th[t]

\* A caller with arguments A starts a method: bounded callers count it.
Call(t, A) ==
    /\ Local(t).pc = "idle"
    /\ IF A.maxCalls = 0 THEN UNCHANGED calls
       ELSE calls < A.maxCalls /\ calls' = calls + 1

Goto(t, l) == th' = [th EXCEPT ![t] = l]

\* A debit that subtracts the size whatever the total is.
subtractBlockBytes_Unchecked(total, block) == total - getCachedBlockSize(block)

\* subtractBlockBytes, the value it leaves in cleanTotalBytes.
subtractBlockBytes(total, block) ==
    LET size == getCachedBlockSize(block)
    IN  IF total >= size THEN total - size ELSE 0

\* ------------------------------------------------------- PutWithPrefetch
\* A put that records the caller's pointer as it came.
ZeroedPtr_Kept(ptr) == ptr

\* ptr.RefNonce = kbfsblock.ZeroRefNonce
ZeroedPtr(ptr) == BlockPointer(ptr.ID, ZeroRefNonce)

\* A put that records the hash of every block it is given, direct or not.
RecordsHash_AnyBlock(block, hasIndex) == hasIndex

\* b.ids != nil && isFileBlock && !fBlock.IsInd
RecordsHash(block, hasIndex) == hasIndex /\ IsDirectFileBlock(block)

\* case TransientEntry: record the hash -> pointer mapping of a direct file
\* block, with the RefNonce zeroed in the local ptr; return when there is no
\* transient cache.
PutRecordHash(t, l) ==
    LET record == RecordsHash(l.block, HasTransient)
        ptr == IF record THEN ZeroedPtr(l.ptr) ELSE l.ptr
        l1 == [l EXCEPT !.ptr = ptr]
    IN  /\ ids' = IF record
                  THEN LruAdd(ids, idCacheKey(l.tlf, GetHash(l.block)), ptr,
                              transientCapacity).cache
                  ELSE ids
        /\ Goto(t, IF ~HasTransient THEN Return(l1, NoResult)
                   ELSE [l1 EXCEPT !.pc = "put_get"])
        /\ UNCHANGED <<cleanPermanent, cleanLock>>

\* A put that starts a fresh map holding the new entry alone.
InsertPermanent_Fresh(map, id, block) == [i \in IDs |-> IF i = id THEN block ELSE NoBlock]

\* b.cleanPermanent[ptr.ID] = block
InsertPermanent(map, id, block) == [map EXCEPT ![id] = block]

\* case PermanentEntry: insert or overwrite under cleanLock.
PutPermanent(t, l) ==
    LET wasInCache == cleanPermanent[l.ptr.ID] # NoBlock
    IN  /\ cleanLock = 0
        /\ cleanPermanent' = InsertPermanent(cleanPermanent, l.ptr.ID, l.block)
        /\ Goto(t, IF wasInCache THEN Return([l EXCEPT !.wasInCache = TRUE], NoResult)
                   ELSE [l EXCEPT !.pc = "mr_start"])
        /\ UNCHANGED <<ids, cleanLock>>

\* The arguments of a put.  Only the TransientEntry case of a cacheable
\* block reads the RefNonce, the folder and the prefetch flag; the other
\* puts are drawn with one value of each.
PutArgs(A) ==
    {a \in [id : A.ids, refNonce : A.refNonces, tlf : A.tlfs,
            lifetime : {"NoCacheEntry", "TransientEntry", "PermanentEntry"},
            hasPrefetched : BOOLEAN,
            block : UNION {BlocksOf(id) : id \in A.ids} \cup RejectedBlocks] :
        /\ a.block \in BlocksOf(a.id) \cup RejectedBlocks
        /\ (a.lifetime # "TransientEntry" \/ a.block \in RejectedBlocks) =>
              /\ a.refNonce = ZeroRefNonce
              /\ a.tlf = CHOOSE f \in A.tlfs : TRUE
              /\ a.hasPrefetched}

\* A type switch without its default case.
PutTypeError_NoDefault(block) ==
    IF block.kind = "CommonBlock" THEN "CommonBlock" ELSE "nil"

\* switch block.(type): the error for a block that must not be cached.
PutTypeError(block) ==
    CASE block.kind = "CommonBlock" -> "CommonBlock"
      [] block.kind \notin {"DirBlock", "FileBlock", "CommonBlock"} -> "UnknownBlockType"
      [] OTHER -> "nil"

\* The call: the type switch on the block, the switch on lifetime, and the
\* first access to the cache of the chosen case.
PutWithPrefetch(t, A) ==
    /\ Call(t, A)
    /\ \E a \in PutArgs(A) :
           LET id == a.id
               refNonce == a.refNonce
               tlf == a.tlf
               lifetime == a.lifetime
               hasPrefetched == a.hasPrefetched
               block == a.block
               l == [IdleLocal EXCEPT !.op = "Put", !.ptr = BlockPointer(id, refNonce),
                                      !.tlf = tlf, !.block = block,
                                      !.lifetime = lifetime,
                                      !.hasPrefetched = hasPrefetched,
                                      !.argHasPrefetched = hasPrefetched,
                                      !.bytesAtCall =
                                          IF A.history /\ lifetime = "PermanentEntry"
                                          THEN cleanTotalBytes ELSE 0,
                                      !.knownAtCall =
                                          /\ A.history
                                          /\ lifetime = "TransientEntry"
                                          /\ IsDirectFileBlock(block)
                                          /\ LruContains(ids, idCacheKey(tlf, GetHash(block)))]
           IN  IF PutTypeError(block) # "nil"
               THEN /\ Goto(t, Return(l, Failed(PutTypeError(block))))
                    /\ UNCHANGED <<ids, cleanPermanent, cleanLock>>
               ELSE   CASE lifetime = "NoCacheEntry" ->
                             /\ Goto(t, Return(l, NoResult))
                             /\ UNCHANGED <<ids, cleanPermanent, cleanLock>>
                        [] lifetime = "TransientEntry" -> PutRecordHash(t, l)
                        [] lifetime = "PermanentEntry" -> PutPermanent(t, l)
    /\ UNCHANGED <<hist, transientCapacity, cleanBytesCapacity, cleanTransient, cleanTotalBytes,
                   bytesLock, lruLock>>

\* A put that stores the incoming flag over the existing one.
MergePrefetched_Incoming(hasPrefetched, bc) == hasPrefetched

\* hasPrefetched = (hasPrefetched || bc.(blockContainer).hasPrefetched)
MergePrefetched(hasPrefetched, bc) == hasPrefetched \/ bc.hasPrefetched

\* A put that makes room again for a block found in the cache.
AfterProbe_AlwaysMakesRoom(wasInCache) == "mr_start"

\* A put that returns at once for a block found in the cache.
AfterProbe_ReturnsWhenCached(wasInCache) == IF wasInCache THEN "done" ELSE "mr_start"

\* Where PutWithPrefetch goes after the probe: room is made only for a
\* block that was not in the cache; the Add follows in both cases.
AfterProbe(wasInCache) == IF wasInCache THEN "put_add" ELSE "mr_start"

\* case TransientEntry, second part: probe with Get (which refreshes the
\* entry) and OR the prefetch flags.
PutProbeTransient(t) ==
    LET l == Local(t)
        wasInCache == LruContains(cleanTransient, l.ptr.ID)
        hasPrefetched == IF wasInCache
                         THEN MergePrefetched(l.hasPrefetched,
                                              LruValue(cleanTransient, l.ptr.ID))
                         ELSE l.hasPrefetched
    IN  /\ l.pc = "put_get"
        /\ lruLock = 0
        /\ cleanTransient' = IF wasInCache THEN LruTouch(cleanTransient, l.ptr.ID)
                             ELSE cleanTransient
        /\ Goto(t, [l EXCEPT !.wasInCache = wasInCache, !.hasPrefetched = hasPrefetched,
                             !.pc = AfterProbe(wasInCache)])
        /\ UNCHANGED <<calls, hist, transientCapacity, cleanBytesCapacity, ids, cleanPermanent,
                       cleanTotalBytes, bytesLock, cleanLock, lruLock>>

\* The end of PutWithPrefetch once makeRoomForSize has returned `room`.
AfterMakeRoom(l, room) ==
    LET l1 == [l EXCEPT !.transientCacheHasRoom = room]
    IN  IF l.lifetime = "TransientEntry"
        THEN IF ~room THEN Return(l1, Failed("cachePutCacheFull"))
             ELSE [l1 EXCEPT !.pc = "put_add"]
        ELSE Return(l1, NoResult)

\* ------------------------------------------------------- makeRoomForSize
\* A loop that starts from the length itself, and so breaks before evicting.
InitialOldLen_NoSlack(len) == len

\* oldLen := b.cleanTransient.Len() + 1
InitialOldLen(len) == len + 1

\* No transient cache: return false.  Otherwise take the initial oldLen.
MakeRoomStart(t) ==
    LET l == Local(t)
    IN  /\ l.pc = "mr_start"
        /\ HasTransient => lruLock = 0
        /\ Goto(t, IF ~HasTransient THEN AfterMakeRoom(l, FALSE)
                   ELSE [l EXCEPT !.oldLen = InitialOldLen(Len(cleanTransient)),
                                   !.pc = "mr_lock"])
        /\ UNCHANGED <<calls, hist, transientCapacity, cleanBytesCapacity, cacheVars, bytesLock, cleanLock,
                       lruLock>>

\* bytesLock.Lock(), then the atomic load of the capacity.
MakeRoomLock(t) ==
    LET l == Local(t)
    IN  /\ l.pc = "mr_lock"
        /\ bytesLock = 0
        /\ bytesLock' = t
        /\ Goto(t, [l EXCEPT !.cleanBytesCapacity = cleanBytesCapacity, !.pc = "mr_loop"])
        /\ UNCHANGED <<calls, hist, transientCapacity, cleanBytesCapacity, cacheVars, cleanLock, lruLock>>

\* A check of the size alone against the capacity.
OverCapacity_IgnoresUsed(total, size, capacity) == size > capacity

\* A check that always finds room, so that nothing is evicted.
OverCapacity_Never(total, size, capacity) == FALSE

\* if b.cleanTotalBytes+size > cleanBytesCapacity
OverCapacity(total, size, capacity) == total + size > capacity

\* A loop body that keeps bytesLock while it evicts.
LoopBodyLock_Kept(t, over) == t

\* b.bytesLock.Unlock() at the top of the loop body: the holder of bytesLock
\* after the loop condition is evaluated.
LoopBodyLock(t, over) == IF over THEN 0 ELSE t

\* The loop condition, under the lock; entering the body unlocks.
MakeRoomLoop(t) ==
    LET l == Local(t)
        over == OverCapacity(cleanTotalBytes, getCachedBlockSize(l.block),
                             l.cleanBytesCapacity)
    IN  /\ l.pc = "mr_loop"
        /\ bytesLock = t
        /\ bytesLock' = LoopBodyLock(t, over)
        /\ Goto(t, [l EXCEPT !.pc = IF over THEN "mr_cmp" ELSE "mr_final"])
        /\ UNCHANGED <<calls, hist, transientCapacity, cleanBytesCapacity, cacheVars, cleanLock, lruLock>>

\* if oldLen == b.cleanTransient.Len()
MakeRoomCompareLen(t) ==
    LET l == Local(t)
    IN  /\ l.pc = "mr_cmp"
        /\ lruLock = 0
        /\ Goto(t, [l EXCEPT !.pc = IF l.oldLen = Len(cleanTransient) THEN "mr_break"
                                    ELSE "mr_setlen"])
        /\ UNCHANGED <<calls, hist, transientCapacity, cleanBytesCapacity, cacheVars, bytesLock, cleanLock,
                       lruLock>>

\* No progress: lock again and break.
MakeRoomBreak(t) ==
    LET l == Local(t)
    IN  /\ l.pc = "mr_break"
        /\ bytesLock = 0
        /\ bytesLock' = t
        /\ Goto(t, [l EXCEPT !.pc = "mr_final"])
        /\ UNCHANGED <<calls, hist, transientCapacity, cleanBytesCapacity, cacheVars, cleanLock, lruLock>>

\* oldLen = b.cleanTransient.Len()
MakeRoomSetLen(t) ==
    LET l == Local(t)
    IN  /\ l.pc = "mr_setlen"
        /\ lruLock = 0
        /\ Goto(t, [l EXCEPT !.oldLen = Len(cleanTransient), !.pc = "mr_remove"])
        /\ UNCHANGED <<calls, hist, transientCapacity, cleanBytesCapacity, cacheVars, bytesLock, cleanLock,
                       lruLock>>

\* b.cleanTransient.RemoveOldest(): the entry leaves the list under the LRU
\* mutex, which stays held while the eviction callback runs.
MakeRoomRemoveOldest(t) ==
    LET l == Local(t)
        r == LruRemoveOldest(cleanTransient)
    IN  /\ l.pc = "mr_remove"
        /\ lruLock = 0
        /\ cleanTransient' = r.cache
        /\ IF r.evicted = <<>>
           THEN /\ Goto(t, [l EXCEPT !.pc = "mr_relock"])
                /\ UNCHANGED lruLock
           ELSE /\ Goto(t, [l EXCEPT !.evicted = r.evicted[1].value.block,
                                     !.pc = "mr_evict"])
                /\ lruLock' = t
        /\ UNCHANGED <<calls, hist, transientCapacity, cleanBytesCapacity, ids, cleanPermanent,
                       cleanTotalBytes, bytesLock, cleanLock>>

\* onEvict -> subtractBlockBytes, then the LRU call returns.
OnEvict(t, from, to) ==
    LET l == Local(t)
    IN  /\ l.pc = from
        /\ lruLock = t
        /\ bytesLock = 0
        /\ cleanTotalBytes' = subtractBlockBytes(cleanTotalBytes, l.evicted)
        /\ lruLock' = 0
        /\ Goto(t, IF to = "done" THEN Return([l EXCEPT !.evicted = NoBlock], NoResult)
                   ELSE [l EXCEPT !.evicted = NoBlock, !.pc = to])
        /\ UNCHANGED <<calls, hist, transientCapacity, cleanBytesCapacity, ids, cleanTransient,
                       cleanPermanent, bytesLock, cleanLock>>

MakeRoomOnEvict(t) == OnEvict(t, "mr_evict", "mr_relock")

\* bytesLock.Lock() at the end of the loop body.
MakeRoomRelock(t) ==
    LET l == Local(t)
    IN  /\ l.pc = "mr_relock"
        /\ bytesLock = 0
        /\ bytesLock' = t
        /\ Goto(t, [l EXCEPT !.pc = "mr_loop"])
        /\ UNCHANGED <<calls, hist, transientCapacity, cleanBytesCapacity, cacheVars, cleanLock, lruLock>>

\* An accountant that charges nothing that does not fit.
ChargedBytes_OnlyWhenFits(total, size, capacity, lifetime) ==
    IF total + size > capacity THEN total ELSE total + size

\* An accountant that stops at the capacity for a permanent entry.
ChargedBytes_Clamped(total, size, capacity, lifetime) ==
    IF total + size > capacity
    THEN IF lifetime = "PermanentEntry" THEN capacity ELSE total
    ELSE total + size

\* An accountant that charges every put, whether it fits or not.
ChargedBytes_Always(total, size, capacity, lifetime) == total + size

\* The value the end of makeRoomForSize leaves in cleanTotalBytes: the size
\* is added when it fits, and for a permanent entry also when it does not.
ChargedBytes(total, size, capacity, lifetime) ==
    IF OverCapacity(total, size, capacity)
    THEN IF lifetime = "PermanentEntry" THEN total + size ELSE total
    ELSE total + size

\* After the loop, still under the lock: charge the size or give up; the
\* deferred unlock runs on return.
MakeRoomFinal(t) ==
    LET l == Local(t)
        size == getCachedBlockSize(l.block)
        over == OverCapacity(cleanTotalBytes, size, l.cleanBytesCapacity)
    IN  /\ l.pc = "mr_final"
        /\ bytesLock = t
        /\ cleanTotalBytes' = ChargedBytes(cleanTotalBytes, size, l.cleanBytesCapacity,
                                           l.lifetime)
        /\ bytesLock' = 0
        /\ Goto(t, AfterMakeRoom(l, ~over))
        /\ UNCHANGED <<calls, hist, transientCapacity, cleanBytesCapacity, ids, cleanTransient,
                       cleanPermanent, cleanLock, lruLock>>

\* b.cleanTransient.Add(ptr.ID, blockContainer{block, hasPrefetched}).  The
\* thread notes a double insert: its probe missed the block, it has charged
\* the size, and the entry is there when it adds.
PutAddTransient(t) ==
    LET l == Local(t)
        r == LruAdd(cleanTransient, l.ptr.ID, blockContainer(l.block, l.hasPrefetched),
                    transientCapacity)
        l1 == [l EXCEPT !.doubleInsert =
                              ~l.wasInCache /\ LruContains(cleanTransient, l.ptr.ID)]
    IN  /\ l.pc = "put_add"
        /\ lruLock = 0
        /\ cleanTransient' = r.cache
        /\ IF r.evicted = <<>>
           THEN /\ Goto(t, Return(l1, NoResult))
                /\ UNCHANGED lruLock
           ELSE /\ Goto(t, [l1 EXCEPT !.evicted = r.evicted[1].value.block,
                                      !.pc = "put_evict"])
                /\ lruLock' = t
        /\ UNCHANGED <<calls, hist, transientCapacity, cleanBytesCapacity, ids, cleanPermanent,
                       cleanTotalBytes, bytesLock, cleanLock>>

PutOnEvict(t) == OnEvict(t, "put_evict", "done")

\* ------------------------------------------------------- GetWithPrefetch
\* The probe of the transient cache; a hit refreshes the entry and returns.
GetWithPrefetch(t, A) ==
    LET hit(id) == HasTransient /\ LruContains(cleanTransient, id)
    IN  /\ Call(t, A)
        /\ HasTransient => lruLock = 0
        /\ \E id \in A.ids, refNonce \in A.refNonces :
             LET l == [IdleLocal EXCEPT !.op = "Get", !.ptr = BlockPointer(id, refNonce)]
                 bc == LruValue(cleanTransient, id)
             IN  /\ cleanTransient' = IF hit(id) THEN LruTouch(cleanTransient, id)
                                      ELSE cleanTransient
                 /\ Goto(t, IF hit(id)
                            THEN Return(l, [NoResult EXCEPT
                                              !.block = bc.block,
                                              !.hasPrefetched = bc.hasPrefetched,
                                              !.lifetime = "TransientEntry"])
                            ELSE [l EXCEPT !.pc = "get_perm"])
        /\ UNCHANGED <<hist, transientCapacity, cleanBytesCapacity, ids, cleanPermanent,
                       cleanTotalBytes, bytesLock, cleanLock, lruLock>>

\* A permanent hit that reports the block as not prefetched.
PermanentHit_NotPrefetched(block) ==
    [NoResult EXCEPT !.block = block, !.hasPrefetched = FALSE, !.lifetime = "PermanentEntry"]

\* return block, true, PermanentEntry, nil
PermanentHit(block) ==
    [NoResult EXCEPT !.block = block, !.hasPrefetched = TRUE, !.lifetime = "PermanentEntry"]

\* The read of the permanent map under cleanLock.RLock().
GetPermanent(t) ==
    LET l == Local(t)
        block == cleanPermanent[l.ptr.ID]
    IN  /\ l.pc = "get_perm"
        /\ cleanLock = 0
        /\ Goto(t, IF block # NoBlock
                   THEN Return(l, PermanentHit(block))
                   ELSE Return(l, Failed("NoSuchBlock")))
        /\ UNCHANGED <<calls, hist, transientCapacity, cleanBytesCapacity, cacheVars, bytesLock, cleanLock,
                       lruLock>>

\* ------------------------------------------------------ CheckForKnownPtr
\* A check for the index before the check of the block.
KnownPtrError_IndexFirst(block, hasIndex) ==
    IF hasIndex /\ block.IsInd THEN "NotDirectFileBlock" ELSE "nil"

\* if block.IsInd { return ..., NotDirectFileBlockError{} }, the first
\* statement of CheckForKnownPtr and of DeleteKnownPtr.
KnownPtrError(block, hasIndex) ==
    IF block.IsInd THEN "NotDirectFileBlock" ELSE "nil"

CheckForKnownPtr(t, A) ==
    /\ Call(t, A)
    /\ \E tlf \in A.tlfs, block \in FileBlocks :
         LET l == [IdleLocal EXCEPT !.op = "CheckForKnownPtr", !.tlf = tlf, !.block = block]
             key == idCacheKey(tlf, GetHash(block))
             ok == HasTransient /\ LruContains(ids, key)
             err == KnownPtrError(block, HasTransient)
         IN  /\ ids' = IF err = "nil" /\ ok THEN LruTouch(ids, key) ELSE ids
             /\ Goto(t, IF err # "nil" THEN Return(l, Failed(err))
                        ELSE IF ~ok THEN Return(l, NoResult)
                        ELSE Return(l, [NoResult EXCEPT !.ptr = LruValue(ids, key)]))
    /\ UNCHANGED <<hist, transientCapacity, cleanBytesCapacity, cleanTransient, cleanPermanent,
                   cleanTotalBytes, bytesLock, cleanLock, lruLock>>

\* ------------------------------------------------- SetCleanBytesCapacity
\* A setter that evicts the oldest transient block when the new capacity
\* is below the bytes in use.
SetCleanBytesCapacity_Evicting(t, A) ==
    /\ Call(t, A)
    /\ lruLock = 0
    /\ \E capacity \in A.capacities :
         /\ cleanBytesCapacity' = capacity
         /\ cleanTransient' = IF capacity < cleanTotalBytes
                              THEN LruRemoveOldest(cleanTransient).cache
                              ELSE cleanTransient
         /\ Goto(t, Return([IdleLocal EXCEPT !.op = "SetCleanBytesCapacity",
                                             !.capacity = capacity], NoResult))
    /\ UNCHANGED <<hist, transientCapacity, ids, cleanPermanent, cleanTotalBytes, bytesLock,
                   cleanLock, lruLock>>

\* atomic.StoreUint64(&b.cleanBytesCapacity, capacity)
SetCleanBytesCapacity(t, A) ==
    /\ Call(t, A)
    /\ \E capacity \in A.capacities :
         /\ cleanBytesCapacity' = capacity
         /\ Goto(t, Return([IdleLocal EXCEPT !.op = "SetCleanBytesCapacity",
                                             !.capacity = capacity], NoResult))
    /\ UNCHANGED <<hist, transientCapacity, cacheVars, bytesLock, cleanLock, lruLock>>

\* ------------------------------------------------------- DeletePermanent
\* A delete that leaves the entry in the map.
RemovePermanent_Keeps(map, id) == map

\* delete(b.cleanPermanent, id)
RemovePermanent(map, id) == [map EXCEPT ![id] = NoBlock]

\* cleanLock.Lock(); delete the entry when present.  The lock stays held
\* for subtractBlockBytes.
DeletePermanent(t, A) ==
    /\ Call(t, A)
    /\ cleanLock = 0
    /\ \E id \in A.ids :
         LET l == [IdleLocal EXCEPT !.op = "DeletePermanent",
                                    !.ptr = BlockPointer(id, ZeroRefNonce)]
             block == cleanPermanent[id]
         IN  IF block # NoBlock
             THEN /\ cleanPermanent' = RemovePermanent(cleanPermanent, id)
                  /\ cleanLock' = t
                  /\ Goto(t, [l EXCEPT !.evicted = block, !.pc = "dp_subtract"])
             ELSE /\ UNCHANGED <<cleanPermanent, cleanLock>>
                  /\ Goto(t, Return(l, NoResult))
    /\ UNCHANGED <<hist, transientCapacity, cleanBytesCapacity, ids, cleanTransient,
                   cleanTotalBytes, bytesLock, lruLock>>

\* subtractBlockBytes(block), then the deferred cleanLock.Unlock().
DeletePermanentSubtract(t) ==
    LET l == Local(t)
    IN  /\ l.pc = "dp_subtract"
        /\ cleanLock = t
        /\ bytesLock = 0
        /\ cleanTotalBytes' = subtractBlockBytes(cleanTotalBytes, l.evicted)
        /\ cleanLock' = 0
        /\ Goto(t, Return([l EXCEPT !.evicted = NoBlock], NoResult))
        /\ UNCHANGED <<calls, hist, transientCapacity, cleanBytesCapacity, ids, cleanTransient,
                       cleanPermanent, bytesLock, lruLock>>

\* ------------------------------------------------------- DeleteTransient
\* No transient cache: return.  Otherwise Get the entry (refreshing it).
DeleteTransient(t, A) ==
    /\ Call(t, A)
    /\ HasTransient => lruLock = 0
    /\ \E id \in A.ids, refNonce \in A.refNonces, tlf \in A.tlfs :
         LET l == [IdleLocal EXCEPT !.op = "DeleteTransient",
                                    !.ptr = BlockPointer(id, refNonce), !.tlf = tlf]
             ok == HasTransient /\ LruContains(cleanTransient, id)
         IN  /\ cleanTransient' = IF ok THEN LruTouch(cleanTransient, id)
                                  ELSE cleanTransient
             /\ Goto(t, IF ok
                        THEN [l EXCEPT !.block = LruValue(cleanTransient, id).block,
                                       !.pc = "dt_ids"]
                        ELSE Return(l, NoResult))
    /\ UNCHANGED <<hist, transientCapacity, cleanBytesCapacity, ids, cleanPermanent,
                   cleanTotalBytes, bytesLock, cleanLock, lruLock>>

\* A delete that forgets the hash of indirect file blocks only.
ForgetsKnownPtr_Indirect(block) == block.kind = "FileBlock" /\ block.IsInd

\* if fBlock, ok := block.(*FileBlock); b.ids != nil && ok && !fBlock.IsInd
ForgetsKnownPtr(block) == IsDirectFileBlock(block)

\* Remove the known pointer of a cached direct file block.
DeleteTransientForgetHash(t) ==
    LET l == Local(t)
        key == idCacheKey(l.tlf, DoRawDefaultHash(l.block.Contents))
    IN  /\ l.pc = "dt_ids"
        /\ ids' = IF ForgetsKnownPtr(l.block) THEN LruRemove(ids, key).cache ELSE ids
        /\ Goto(t, [l EXCEPT !.pc = "dt_remove"])
        /\ UNCHANGED <<calls, hist, transientCapacity, cleanBytesCapacity, cleanTransient, cleanPermanent,
                       cleanTotalBytes, bytesLock, cleanLock, lruLock>>

\* b.cleanTransient.Remove(ptr.ID)
DeleteTransientRemove(t) ==
    LET l == Local(t)
        r == LruRemove(cleanTransient, l.ptr.ID)
    IN  /\ l.pc = "dt_remove"
        /\ lruLock = 0
        /\ cleanTransient' = r.cache
        /\ IF r.evicted = <<>>
           THEN /\ Goto(t, Return(l, NoResult))
                /\ UNCHANGED lruLock
           ELSE /\ Goto(t, [l EXCEPT !.evicted = r.evicted[1].value.block,
                                     !.pc = "dt_evict"])
                /\ lruLock' = t
        /\ UNCHANGED <<calls, hist, transientCapacity, cleanBytesCapacity, ids, cleanPermanent,
                       cleanTotalBytes, bytesLock, cleanLock>>

DeleteTransientOnEvict(t) == OnEvict(t, "dt_evict", "done")

\* -------------------------------------------------------- DeleteKnownPtr
DeleteKnownPtr(t, A) ==
    /\ Call(t, A)
    /\ \E tlf \in A.tlfs, block \in FileBlocks :
         LET l == [IdleLocal EXCEPT !.op = "DeleteKnownPtr", !.tlf = tlf, !.block = block]
             key == idCacheKey(tlf, DoRawDefaultHash(block.Contents))
             err == KnownPtrError(block, HasTransient)
         IN  /\ ids' = IF err = "nil" /\ HasTransient THEN LruRemove(ids, key).cache
                       ELSE ids
             /\ Goto(t, IF err # "nil" THEN Return(l, Failed(err))
                        ELSE Return(l, NoResult))
    /\ UNCHANGED <<hist, transientCapacity, cleanBytesCapacity, cleanTransient, cleanPermanent,
                   cleanTotalBytes, bytesLock, cleanLock, lruLock>>

TransientIDs == LruKeys(cleanTransient)

PermanentIDs == {id \in IDs : cleanPermanent[id] # NoBlock}

\* The entries of an LRU, without their order of use.
LruEntries(c) == {c[i] : i \in 1..Len(c)}

\* What a caller that is about to repeat the put it has returned from notes.
RepeatOf(l) ==
    [pending |-> TRUE, id |-> l.ptr.ID, tlf |-> l.tlf, block |-> l.block,
     lifetime |-> l.lifetime, hasPrefetched |-> l.argHasPrefetched, err |-> l.res.err,
     transient |-> LruEntries(cleanTransient), permanent |-> cleanPermanent,
     ids |-> LruEntries(ids), bytes |-> cleanTotalBytes]

\* The method has returned; the caller goes on to its next call.  Callers
\* that keep a history note the completed call; callers that repeat puts
\* decide whether the put they return from is called again.
Finish(t, A) ==
    LET l == Local(t)
        prefetchedPut == /\ l.op = "Put"
                         /\ l.lifetime = "TransientEntry"
                         /\ l.res.err = "nil"
                         /\ l.argHasPrefetched
        latest == IF prefetchedPut THEN l.ptr.ID ELSE hist.prefetched
        resident == IF prefetchedPut THEN l.ptr.ID ELSE hist.prefetchedResident
        mayRepeat == A.repeat /\ l.op = "Put" /\ ~hist.repeat.pending
        used == \/ l.op = "Put" /\ l.lifetime = "TransientEntry" /\ l.res.err = "nil"
                \/ l.op = "Get" /\ l.res.lifetime = "TransientEntry"
        latestUses == IF used
                      THEN SelectSeq(hist.recency, LAMBDA id : id # l.ptr.ID) \o <<l.ptr.ID>>
                      ELSE hist.recency
    IN  /\ l.pc = "done"
        /\ Goto(t, IdleLocal)
        /\ \E again \in IF mayRepeat THEN BOOLEAN ELSE {FALSE} :
             hist' = [capacitySet |-> IF A.history
                                      THEN hist.capacitySet \/ l.op = "SetCleanBytesCapacity"
                                      ELSE hist.capacitySet,
                      prefetched |-> IF A.history THEN latest ELSE hist.prefetched,
                      prefetchedResident |-> IF ~A.history THEN hist.prefetchedResident
                                             ELSE IF resident \in TransientIDs THEN resident
                                             ELSE 0,
                      repeat |-> IF again THEN RepeatOf(l) ELSE NoRepeat,
                      recency |-> IF A.history
                                  THEN SelectSeq(latestUses, LAMBDA id : id \in TransientIDs)
                                  ELSE hist.recency]
        /\ UNCHANGED <<calls, transientCapacity, cleanBytesCapacity, cacheVars, bytesLock,
                       cleanLock, lruLock>>

\* ---------------------------------------------------------- specifications
\* The arguments callers pass.
AllArgs ==
    [ids |-> IDs, refNonces |-> RefNonces, tlfs |-> Tlfs, capacities |-> Capacities,
     maxCalls |-> 0, history |-> FALSE, repeat |-> FALSE]

Step(t, A) ==
    \/ PutWithPrefetch(t, A)
    \/ PutProbeTransient(t)
    \/ MakeRoomStart(t)
    \/ MakeRoomLock(t)
    \/ MakeRoomLoop(t)
    \/ MakeRoomCompareLen(t)
    \/ MakeRoomBreak(t)
    \/ MakeRoomSetLen(t)
    \/ MakeRoomRemoveOldest(t)
    \/ MakeRoomOnEvict(t)
    \/ MakeRoomRelock(t)
    \/ MakeRoomFinal(t)
    \/ PutAddTransient(t)
    \/ PutOnEvict(t)
    \/ GetWithPrefetch(t, A)
    \/ GetPermanent(t)
    \/ CheckForKnownPtr(t, A)
    \/ SetCleanBytesCapacity(t, A)
    \/ DeletePermanent(t, A)
    \/ DeletePermanentSubtract(t)
    \/ DeleteTransient(t, A)
    \/ DeleteTransientForgetHash(t)
    \/ DeleteTransientRemove(t)
    \/ DeleteTransientOnEvict(t)
    \/ DeleteKnownPtr(t, A)
    \/ Finish(t, A)

\* Sequential use: one caller, one method at a time.
Next == Step(1, AllArgs)

Init == New(AllArgs.capacities)

Spec == Init /\ [][Next]_vars

\* Sequential use by a caller that keeps the history of its calls, in one
\* folder and with pointers of one RefNonce.
HistoryArgs ==
    [ids |-> IDs, refNonces |-> {ZeroRefNonce}, tlfs |-> {1}, capacities |-> Capacities,
     maxCalls |-> 0, history |-> TRUE, repeat |-> FALSE]

NextHistory == Step(1, HistoryArgs)

SpecHistory == New(HistoryArgs.capacities) /\ [][NextHistory]_vars

\* Concurrent use: every thread calls methods, and their steps interleave.
\* The callers share two block IDs, one folder and two capacities, and call
\* MaxConcurrentCalls methods in all.
ConcurrentArgs ==
    [ids |-> {1, 3}, refNonces |-> {ZeroRefNonce}, tlfs |-> {1}, capacities |-> {1, 2},
     maxCalls |-> MaxConcurrentCalls, history |-> FALSE, repeat |-> FALSE]

NextConcurrent == \E t \in Threads : Step(t, ConcurrentArgs)

SpecConcurrent == New(ConcurrentArgs.capacities) /\ [][NextConcurrent]_vars

\* Sequential use by a caller that may call each put a second time with
\* the same arguments, right after the first has returned.
RepeatArgs ==
    [ids |-> IDs, refNonces |-> {ZeroRefNonce}, tlfs |-> {1}, capacities |-> Capacities,
     maxCalls |-> 0, history |-> FALSE, repeat |-> TRUE]

\* The call that follows a put to be repeated is that put again.
RepeatsPut(t) ==
    (hist.repeat.pending /\ th[t].pc = "idle") =>
        /\ th'[t].op = "Put"
        /\ th'[t].ptr.ID = hist.repeat.id
        /\ th'[t].tlf = hist.repeat.tlf
        /\ th'[t].block = hist.repeat.block
        /\ th'[t].lifetime = hist.repeat.lifetime
        /\ th'[t].argHasPrefetched = hist.repeat.hasPrefetched

NextRepeat == Step(1, RepeatArgs) /\ RepeatsPut(1)

SpecRepeat == New(RepeatArgs.capacities) /\ [][NextRepeat]_vars

\* Concurrent use without end.  Thread 1 is a writer that goes on putting
\* the prefetched direct file block of ID 1 into the transient cache; the
\* other threads call any method, with ID 2.  The cache holds one transient
\* entry and one byte.
LiveArgs(t) ==
    [ids |-> IF t = 1 THEN {1} ELSE {2}, refNonces |-> {ZeroRefNonce}, tlfs |-> {1},
     capacities |-> {1}, maxCalls |-> 0, history |-> FALSE, repeat |-> FALSE]

\* The calls of a writer are Transient puts of prefetched direct file blocks.
Writer(t) ==
    th[t].pc = "idle" =>
        /\ th'[t].op = "Put"
        /\ th'[t].lifetime = "TransientEntry"
        /\ IsDirectFileBlock(th'[t].block)
        /\ th'[t].argHasPrefetched

\* A step of thread t inside a method it has started.
Proceeds(t) == th[t].pc # "idle" /\ Step(t, LiveArgs(t))

NextLive ==
    \/ Step(1, LiveArgs(1)) /\ Writer(1)
    \/ \E t \in Threads \ {1} : Step(t, LiveArgs(t))

\* The cache of the threads above, built with transientCapacity 1.
NewLive == New(LiveArgs(1).capacities) /\ transientCapacity = 1

\* A thread that has started a method keeps being scheduled, and a
\* goroutine waiting for a sync.Mutex gets it in the end (the mutex hands
\* over to a starving waiter), so the steps that continue a call are
\* strongly fair.  No thread has to start another call.
SpecLive ==
    /\ NewLive
    /\ [][NextLive]_vars
    /\ \A t \in Threads : SF_vars(Proceeds(t))

\* ------------------------------------------------------------ properties
\* The sizes of the blocks resident in the transient cache.
RECURSIVE TransientBytes(_)
TransientBytes(c) ==
    IF c = <<>> THEN 0
    ELSE getCachedBlockSize(Head(c).value.block) + TransientBytes(Tail(c))

\* The sizes of the blocks resident in the permanent map, over a set of IDs.
RECURSIVE PermanentBytes(_)
PermanentBytes(S) ==
    IF S = {} THEN 0
    ELSE LET id == CHOOSE x \in S : TRUE
         IN  getCachedBlockSize(cleanPermanent[id]) + PermanentBytes(S \ {id})

ResidentBytes == TransientBytes(cleanTransient) + PermanentBytes(PermanentIDs)

\* Between calls: the thread has returned from a method or has not called one.
Quiescent(t) == th[t].pc \in {"idle", "done"}

Returned(t, op) == th[t].pc = "done" /\ th[t].op = op

Cacheable(block) == block.kind \in {"DirBlock", "FileBlock"}

\* What Get / GetWithPrefetch returns when it runs now with no other thread
\* in between: the transient probe, then the permanent map.
ImmediateGet(id) ==
    IF HasTransient /\ LruContains(cleanTransient, id)
    THEN [NoResult EXCEPT !.block = LruValue(cleanTransient, id).block,
                          !.hasPrefetched = LruValue(cleanTransient, id).hasPrefetched,
                          !.lifetime = "TransientEntry"]
    ELSE IF cleanPermanent[id] # NoBlock
         THEN [NoResult EXCEPT !.block = cleanPermanent[id], !.hasPrefetched = TRUE,
                               !.lifetime = "PermanentEntry"]
         ELSE Failed("NoSuchBlock")

\* C1: a block put with lifetime Permanent under an ID stays in the
\* permanent map through every step of every thread other than
\* DeletePermanent of that ID: the insert stores the block, only the first
\* step of DeletePermanent(id) takes the entry of id away, and a Get whose
\* read of the permanent map finds the entry does not return NoSuchBlock.
C1_PermanentStays ==
    [][\A t \in Threads :
         /\ (th[t].pc = "idle" /\ th'[t].op = "Put" /\ th'[t].lifetime = "PermanentEntry"
               /\ Cacheable(th'[t].block))
              => cleanPermanent'[th'[t].ptr.ID] = th'[t].block
         /\ \A id \in IDs :
              (cleanPermanent[id] # NoBlock /\ cleanPermanent'[id] = NoBlock)
                => \E u \in Threads : /\ th[u].pc = "idle"
                                      /\ th'[u].op = "DeletePermanent"
                                      /\ th'[u].ptr.ID = id
         /\ (th[t].pc = "get_perm" /\ th'[t].pc = "done"
               /\ cleanPermanent[th[t].ptr.ID] # NoBlock)
              => /\ th'[t].res.err = "nil"
                 /\ th'[t].res.block = cleanPermanent[th[t].ptr.ID]]_vars

\* C1 witness: a Get returns a permanent block while the permanent blocks
\* hold more bytes than the capacity and another thread is making room.
C1_Witness ==
    \E t, u \in Threads :
        /\ Returned(t, "Get")
        /\ th[t].res.lifetime = "PermanentEntry"
        /\ cleanTotalBytes > cleanBytesCapacity
        /\ th[u].pc = "mr_relock"
        /\ th[u].lifetime = "TransientEntry"

\* C2 as stated: between calls of a sequential caller, on any cache the
\* constructor builds, cleanTotalBytes is the sum of the sizes of the blocks
\* resident in the transient cache and in the permanent map.
C2_BytesEqualResident ==
    (\A t \in Threads : Quiescent(t)) => cleanTotalBytes = ResidentBytes

\* C2 amended: the same on a cache built with a transient cache
\* (transientCapacity > 0).
C2_BytesEqualResidentWithTransient ==
    ((\A t \in Threads : Quiescent(t)) /\ HasTransient) => cleanTotalBytes = ResidentBytes

\* C2 witness: a put has returned on a cache that holds transient and
\* permanent blocks whose bytes exceed the capacity.
C2_Witness ==
    /\ Returned(1, "Put")
    /\ HasTransient
    /\ cleanTransient # <<>>
    /\ PermanentIDs # {}
    /\ cleanTotalBytes > cleanBytesCapacity

\* A TransientEntry put of a cacheable block that was not in the transient
\* cache has returned.
ReturnedNewTransientPut(t) ==
    /\ Returned(t, "Put")
    /\ th[t].lifetime = "TransientEntry"
    /\ Cacheable(th[t].block)
    /\ ~th[t].wasInCache

\* C3 as stated: a returned Transient put of a block that was not in the
\* transient cache has either inserted the block, with cleanTotalBytes
\* within the capacity, or returned cachePutCacheFull without inserting the
\* block, its size not fitting the capacity.
C3_InsertOrCacheFull ==
    \A t \in Threads :
        ReturnedNewTransientPut(t) =>
            \/ /\ th[t].res.err = "nil"
               /\ th[t].ptr.ID \in TransientIDs
               /\ cleanTotalBytes <= cleanBytesCapacity
            \/ /\ th[t].res.err = "cachePutCacheFull"
               /\ th[t].ptr.ID \notin TransientIDs
               /\ cleanTotalBytes + getCachedBlockSize(th[t].block) > cleanBytesCapacity

\* The step that ends makeRoomForSize for a Transient put: under bytesLock,
\* the size is charged and the put goes on to the insert exactly when
\* cleanTotalBytes + size <= the capacity read at the start; otherwise
\* cleanTotalBytes and the transient cache stay as they are and the put
\* returns cachePutCacheFull.
C3_FinalStep(t) ==
    LET size == getCachedBlockSize(th[t].block)
    IN  (th[t].pc = "mr_final" /\ th'[t].pc # "mr_final"
           /\ th[t].lifetime = "TransientEntry") =>
            /\ bytesLock = t
            /\ IF cleanTotalBytes + size <= th[t].cleanBytesCapacity
               THEN /\ cleanTotalBytes' = cleanTotalBytes + size
                    /\ th'[t].pc = "put_add"
               ELSE /\ cleanTotalBytes' = cleanTotalBytes
                    /\ cleanTransient' = cleanTransient
                    /\ th'[t].pc = "done"
                    /\ th'[t].res.err = "cachePutCacheFull"

\* C3 amended: on a cache built with a transient cache, the statement of C3
\* holds of every returned put, the insert of a block that was not in the
\* cache is reached only through the charging step, and that step decides
\* on cleanTotalBytes + size <= capacity under bytesLock.
C3_InsertOrCacheFullWithTransient ==
    /\ [](\A t \in Threads :
            /\ (HasTransient /\ ReturnedNewTransientPut(t)) =>
                  \/ /\ th[t].res.err = "nil"
                     /\ th[t].ptr.ID \in TransientIDs
                     /\ cleanTotalBytes <= th[t].cleanBytesCapacity
                  \/ /\ th[t].res.err = "cachePutCacheFull"
                     /\ th[t].ptr.ID \notin TransientIDs
                     /\ cleanTotalBytes + getCachedBlockSize(th[t].block)
                          > th[t].cleanBytesCapacity
            /\ (th[t].pc = "put_add" /\ ~th[t].wasInCache) =>
                  cleanTotalBytes <= th[t].cleanBytesCapacity)
    /\ [][\A t \in Threads :
             /\ C3_FinalStep(t)
             /\ (th[t].pc # "put_add" /\ th'[t].pc = "put_add" /\ ~th'[t].wasInCache)
                   => th[t].pc = "mr_final"]_vars

\* C3 witness: a Transient put has returned cachePutCacheFull after evicting
\* every transient block, the permanent blocks leaving no room.
C3_Witness ==
    \E t \in Threads :
        /\ HasTransient
        /\ ReturnedNewTransientPut(t)
        /\ th[t].res.err = "cachePutCacheFull"
        /\ cleanTransient = <<>>
        /\ cleanTotalBytes > 0

\* A PermanentEntry put of a directory or file block has returned.
ReturnedPermanentPut(t) ==
    /\ Returned(t, "Put")
    /\ th[t].lifetime = "PermanentEntry"
    /\ Cacheable(th[t].block)

\* C4 as stated: a Permanent put of a directory or file block returns ok,
\* and when the ID was not in the permanent map cleanTotalBytes is, on
\* return, its value at the call plus the size of the block.
C4_PermanentPutAddsSize ==
    \A t \in Threads :
        ReturnedPermanentPut(t) =>
            /\ th[t].res.err = "nil"
            /\ ~th[t].wasInCache =>
                  cleanTotalBytes = th[t].bytesAtCall + getCachedBlockSize(th[t].block)

\* C4 amended: a Permanent put of a directory or file block returns ok and
\* stores the block whatever cleanTotalBytes and the capacity are.  When the
\* ID was not in the permanent map and the cache has a transient cache, the
\* last step of makeRoomForSize adds exactly the size, also above the
\* capacity; on return cleanTotalBytes is the value at the call plus the
\* size, less the sizes of the transient blocks evicted to make room (none
\* when the size fitted at the call), and counts the resident blocks.
\* Without a transient cache cleanTotalBytes is left as it was.
C4_PermanentPutCharges ==
    /\ [](\A t \in Threads :
            ReturnedPermanentPut(t) =>
                LET size == getCachedBlockSize(th[t].block)
                IN  /\ th[t].res.err = "nil"
                    /\ cleanPermanent[th[t].ptr.ID] = th[t].block
                    /\ (~th[t].wasInCache /\ HasTransient) =>
                          /\ cleanTotalBytes = ResidentBytes
                          /\ cleanTotalBytes >= size
                          /\ cleanTotalBytes <= th[t].bytesAtCall + size
                          /\ (th[t].bytesAtCall + size <= cleanBytesCapacity) =>
                                cleanTotalBytes = th[t].bytesAtCall + size
                    /\ (th[t].wasInCache \/ ~HasTransient) =>
                          cleanTotalBytes = th[t].bytesAtCall)
    /\ [][\A t \in Threads :
             (th[t].pc = "mr_final" /\ th'[t].pc # "mr_final"
                /\ th[t].lifetime = "PermanentEntry") =>
                 /\ cleanTotalBytes' = cleanTotalBytes + getCachedBlockSize(th[t].block)
                 /\ th'[t].pc = "done"
                 /\ th'[t].res.err = "nil"]_vars

\* C4 witness: a Permanent put of a new ID has returned with cleanTotalBytes
\* above the capacity, after evicting a transient block.
C4_Witness ==
    \E t \in Threads :
        /\ ReturnedPermanentPut(t)
        /\ ~th[t].wasInCache
        /\ HasTransient
        /\ cleanTotalBytes > cleanBytesCapacity
        /\ cleanTotalBytes < th[t].bytesAtCall + getCachedBlockSize(th[t].block)

\* A TransientEntry put of a directory or file block has returned.
ReturnedTransientPut(t) ==
    /\ Returned(t, "Put")
    /\ th[t].lifetime = "TransientEntry"
    /\ Cacheable(th[t].block)

\* C5 as stated: once SetCleanBytesCapacity has been called, a Transient
\* put of a valid block whose size is at most the capacity in force does not
\* return cachePutCacheFull.
C5_FitsCapacitySucceeds ==
    \A t \in Threads :
        (/\ hist.capacitySet
         /\ ReturnedTransientPut(t)
         /\ getCachedBlockSize(th[t].block) <= cleanBytesCapacity)
            => th[t].res.err = "nil"

\* C5 amended: a Transient put of a valid block returns ok when the size of
\* the block plus the bytes of the permanent blocks is at most the capacity
\* in force; it returns cachePutCacheFull only for a block that was not in
\* the transient cache, after every transient block has been evicted, when
\* the size plus the bytes of the permanent blocks exceeds the capacity.
C5_FitsBesidePermanentSucceeds ==
    \A t \in Threads :
        ReturnedTransientPut(t) =>
            LET size == getCachedBlockSize(th[t].block)
                permanent == PermanentBytes(PermanentIDs)
            IN  /\ (size + permanent <= cleanBytesCapacity) => th[t].res.err = "nil"
                /\ th[t].res.err \in {"nil", "cachePutCacheFull"}
                /\ th[t].res.err = "cachePutCacheFull" =>
                      /\ HasTransient
                      /\ ~th[t].wasInCache
                      /\ cleanTransient = <<>>
                      /\ size + permanent > cleanBytesCapacity

\* C5 witness: after SetCleanBytesCapacity, a Transient put of a new block
\* has returned ok beside a permanent block, the two filling the capacity.
C5_Witness ==
    \E t \in Threads :
        /\ hist.capacitySet
        /\ ReturnedTransientPut(t)
        /\ th[t].res.err = "nil"
        /\ ~th[t].wasInCache
        /\ HasTransient
        /\ PermanentIDs # {}
        /\ cleanTotalBytes = cleanBytesCapacity

\* C6 as stated: when a Transient put of a block under ptr has returned ok,
\* a Get of ptr that runs next returns that block, and GetWithPrefetch
\* reports the lifetime TransientEntry.
C6_PutThenGet ==
    \A t \in Threads :
        (ReturnedTransientPut(t) /\ th[t].res.err = "nil") =>
            /\ ImmediateGet(th[t].ptr.ID).err = "nil"
            /\ ImmediateGet(th[t].ptr.ID).block = th[t].block
            /\ ImmediateGet(th[t].ptr.ID).lifetime = "TransientEntry"

\* C6 amended: the same on a cache built with a transient cache
\* (transientCapacity > 0); the Get also reports the prefetch flag the put
\* stored.
C6_PutThenGetWithTransient ==
    \A t \in Threads :
        (HasTransient /\ ReturnedTransientPut(t) /\ th[t].res.err = "nil") =>
            /\ ImmediateGet(th[t].ptr.ID).err = "nil"
            /\ ImmediateGet(th[t].ptr.ID).block = th[t].block
            /\ ImmediateGet(th[t].ptr.ID).lifetime = "TransientEntry"
            /\ ImmediateGet(th[t].ptr.ID).hasPrefetched = th[t].hasPrefetched

\* C6 witness: a Transient put has returned ok with a directory block for
\* an ID that was in the transient cache, beside another transient block.
C6_Witness ==
    \E t \in Threads :
        /\ HasTransient
        /\ ReturnedTransientPut(t)
        /\ th[t].res.err = "nil"
        /\ th[t].wasInCache
        /\ th[t].block.kind = "DirBlock"
        /\ Len(cleanTransient) > 1

\* A Transient put with hasPrefetched = false has returned ok.
ReturnedPlainTransientPut(t) ==
    /\ ReturnedTransientPut(t)
    /\ th[t].res.err = "nil"
    /\ ~th[t].argHasPrefetched

C8_PermanentHit ==
    /\ [](\A t \in Threads :
            (Returned(t, "Get") /\ th[t].res.lifetime = "PermanentEntry") =>
                /\ th[t].res.hasPrefetched
                /\ th[t].res.err = "nil"
                /\ th[t].ptr.ID \notin TransientIDs
                /\ cleanPermanent[th[t].ptr.ID] # NoBlock
                /\ th[t].res.block = cleanPermanent[th[t].ptr.ID])
    /\ [][\A t \in Threads :
             /\ (th[t].pc = "idle" /\ th'[t].pc = "get_perm")
                   => th'[t].ptr.ID \notin TransientIDs
             /\ (th'[t].op = "Get" /\ th'[t].pc = "done"
                   /\ th'[t].res.lifetime = "PermanentEntry")
                   => th[t].pc \in {"get_perm", "done"}]_vars

\* C8 witness: a Get has returned a permanent block on a cache whose
\* transient cache holds other blocks.
C8_Witness ==
    \E t \in Threads :
        /\ Returned(t, "Get")
        /\ th[t].res.lifetime = "PermanentEntry"
        /\ HasTransient
        /\ cleanTransient # <<>>

\* The key CheckForKnownPtr looks up for a block in a folder.
KnownPtrKey(tlf, block) == idCacheKey(tlf, GetHash(block))

\* The step is the call of a Transient put of a direct file block that
\* records ptr, with its RefNonce zeroed, under key.
RecordsKnownPtr(t, key) ==
    /\ th[t].pc = "idle"
    /\ th'[t].op = "Put"
    /\ th'[t].lifetime = "TransientEntry"
    /\ IsDirectFileBlock(th'[t].block)
    /\ key = KnownPtrKey(th'[t].tlf, th'[t].block)
    /\ LruContains(ids', key)
    /\ LruValue(ids', key) = BlockPointer(th'[t].ptr.ID, ZeroRefNonce)

\* The step is one that takes key out of the index: a Transient put of a
\* direct file block recording another key (LRU eviction), DeleteTransient
\* forgetting the hash of the cached block, or DeleteKnownPtr.
ForgetsKey(t, key) ==
    \/ /\ th[t].pc = "idle"
       /\ th'[t].op = "Put"
       /\ th'[t].lifetime = "TransientEntry"
       /\ IsDirectFileBlock(th'[t].block)
       /\ key # KnownPtrKey(th'[t].tlf, th'[t].block)
       /\ Len(ids) = transientCapacity
       /\ key = Head(ids).key
    \/ /\ th[t].pc = "dt_ids"
       /\ IsDirectFileBlock(th[t].block)
       /\ key = KnownPtrKey(th[t].tlf, th[t].block)
    \/ /\ th[t].pc = "idle"
       /\ th'[t].op = "DeleteKnownPtr"
       /\ IsDirectFileBlock(th'[t].block)
       /\ key = KnownPtrKey(th'[t].tlf, th'[t].block)

\* C9: on a cache built with transientCapacity > 0, from the first step of a
\* Transient put of a direct file block under ptr in folder tlf, the index
\* maps (tlf, hash of the plaintext) to ptr with RefNonce zero, and an entry
\* of the index changes only by a put recording that same key, or leaves by
\* LRU eviction, DeleteTransient or DeleteKnownPtr.  Every pointer in the
\* index has RefNonce zero, and CheckForKnownPtr(tlf, block) returns the
\* pointer recorded under the key of its own folder and the block's
\* plaintext, or the zero pointer when there is none.
C9_KnownPtr ==
    /\ [](/\ \A t \in Threads :
               (/\ HasTransient
                /\ th[t].op = "Put"
                /\ th[t].lifetime = "TransientEntry"
                /\ IsDirectFileBlock(th[t].block)) =>
                   /\ LruContains(ids, KnownPtrKey(th[t].tlf, th[t].block))
                   /\ LruValue(ids, KnownPtrKey(th[t].tlf, th[t].block))
                        = BlockPointer(th[t].ptr.ID, ZeroRefNonce)
          /\ \A i \in 1..Len(ids) :
               /\ ids[i].value.RefNonce = ZeroRefNonce
               /\ ids[i].value.ID \in IDs
          /\ \A t \in Threads :
               (Returned(t, "CheckForKnownPtr") /\ th[t].res.err = "nil") =>
                   LET key == KnownPtrKey(th[t].tlf, th[t].block)
                   IN  /\ th[t].res.ptr.RefNonce = ZeroRefNonce
                       /\ IF LruContains(ids, key)
                          THEN th[t].res.ptr = LruValue(ids, key)
                          ELSE th[t].res.ptr = NoPtr)
    /\ [][\A key \in LruKeys(ids) \cup LruKeys(ids') :
             /\ (LruContains(ids', key)
                   /\ (~LruContains(ids, key) \/ LruValue(ids, key) # LruValue(ids', key)))
                  => \E t \in Threads : RecordsKnownPtr(t, key)
             /\ (LruContains(ids, key) /\ ~LruContains(ids', key))
                  => \E t \in Threads : ForgetsKey(t, key)]_vars

\* C9 witness: CheckForKnownPtr has returned the pointer recorded in its
\* folder while the index holds another pointer for the same plaintext in
\* another folder.
C9_Witness ==
    \E t \in Threads :
        /\ Returned(t, "CheckForKnownPtr")
        /\ th[t].res.ptr # NoPtr
        /\ \E i \in 1..Len(ids) :
             /\ ids[i].key.plaintextHash = GetHash(th[t].block)
             /\ ids[i].key.tlf # th[t].tlf
             /\ ids[i].value # th[t].res.ptr

\* C10: when DeleteTransient(ptr, tlf) has returned after finding a direct
\* file block under ptr.ID in the transient cache, the ID is absent from
\* the transient cache, a Get returns NoSuchBlock unless the ID is in the
\* permanent map, and the index has no entry for (tlf, hash of the block's
\* plaintext), so that CheckForKnownPtr(tlf, block) returns the zero
\* pointer.
C10_DeleteTransient ==
    \A t \in Threads :
        (Returned(t, "DeleteTransient") /\ IsDirectFileBlock(th[t].block)) =>
            /\ th[t].ptr.ID \notin TransientIDs
            /\ IF cleanPermanent[th[t].ptr.ID] = NoBlock
               THEN ImmediateGet(th[t].ptr.ID).err = "NoSuchBlock"
               ELSE ImmediateGet(th[t].ptr.ID).lifetime = "PermanentEntry"
            /\ ~LruContains(ids, KnownPtrKey(th[t].tlf, th[t].block))
            /\ th[t].res.err = "nil"

\* C10 witness: DeleteTransient has returned after deleting a direct file
\* block whose plaintext the index still knows in another folder.
C10_Witness ==
    \E t \in Threads :
        /\ Returned(t, "DeleteTransient")
        /\ IsDirectFileBlock(th[t].block)
        /\ \E i \in 1..Len(ids) :
             /\ ids[i].key.plaintextHash = GetHash(th[t].block)
             /\ ids[i].key.tlf # th[t].tlf

\* The step is the call of DeletePermanent(id) by thread t.
CallsDeletePermanent(t, id) ==
    /\ th[t].pc = "idle"
    /\ th'[t].op = "DeletePermanent"
    /\ th'[t].ptr.ID = id

\* The call of DeletePermanent: an entry that is present leaves the map,
\* the other entries stay; an absent ID changes nothing and returns ok.
C11_CallStep(t) ==
    \A id \in IDs :
        CallsDeletePermanent(t, id) =>
            IF cleanPermanent[id] # NoBlock
            THEN /\ cleanPermanent'[id] = NoBlock
                 /\ \A other \in IDs \ {id} : cleanPermanent'[other] = cleanPermanent[other]
                 /\ th'[t].pc = "dp_subtract"
                 /\ th'[t].evicted = cleanPermanent[id]
            ELSE /\ UNCHANGED <<cacheVars, cleanBytesCapacity>>
                 /\ th'[t].pc = "done"
                 /\ th'[t].res.err = "nil"

\* C11 as stated: DeletePermanent of an ID in the permanent map removes the
\* entry and lowers cleanTotalBytes by exactly the size of the removed
\* block; for an absent ID it changes nothing and returns ok.
C11_DeletePermanentSubtractsSize ==
    [][\A t \in Threads :
         /\ C11_CallStep(t)
         /\ (th[t].pc = "dp_subtract" /\ th'[t].pc = "done") =>
               /\ cleanTotalBytes' = cleanTotalBytes - getCachedBlockSize(th[t].evicted)
               /\ th'[t].res.err = "nil"]_vars

\* C11 amended: the entry is removed as stated, and cleanTotalBytes is
\* lowered by the size of the removed block or to zero, whichever is
\* reached first; in sequential use of a cache built with a transient cache
\* that is exactly the size, and cleanTotalBytes counts the resident blocks
\* again on return.
C11_DeletePermanentSubtractsSaturating ==
    /\ [](\A t \in Threads :
            Returned(t, "DeletePermanent") =>
                /\ th[t].res.err = "nil"
                /\ cleanPermanent[th[t].ptr.ID] = NoBlock
                /\ HasTransient => cleanTotalBytes = ResidentBytes)
    /\ [][\A t \in Threads :
             /\ C11_CallStep(t)
             /\ (th[t].pc = "dp_subtract" /\ th'[t].pc = "done") =>
                   LET size == getCachedBlockSize(th[t].evicted)
                   IN  /\ cleanTotalBytes' = IF cleanTotalBytes >= size
                                             THEN cleanTotalBytes - size ELSE 0
                       /\ HasTransient => cleanTotalBytes >= size
                       /\ th'[t].res.err = "nil"
                       /\ UNCHANGED <<ids, cleanTransient, cleanPermanent>>]_vars

\* C11 witness: DeletePermanent has returned after removing one of two
\* permanent blocks from a cache that also holds a transient block.
C11_Witness ==
    \E t \in Threads :
        /\ Returned(t, "DeletePermanent")
        /\ HasTransient
        /\ PermanentIDs # {}
        /\ cleanTransient # <<>>
        /\ cleanTotalBytes = ResidentBytes
        /\ cleanTotalBytes > cleanBytesCapacity

\* C12: a put of a CommonBlock or of a block of an unknown type, with any
\* lifetime, returns its error in the same step and leaves the transient
\* cache, the permanent map, the index, cleanTotalBytes and the capacity as
\* they were.
C12_RejectedPut ==
    /\ [](\A t \in Threads :
            (th[t].op = "Put" /\ ~Cacheable(th[t].block)) =>
                /\ th[t].pc = "done"
                /\ th[t].res.err = IF th[t].block.kind = "CommonBlock"
                                   THEN "CommonBlock" ELSE "UnknownBlockType")
    /\ [][\A t \in Threads :
             (th[t].pc = "idle" /\ th'[t].op = "Put" /\ ~Cacheable(th'[t].block)) =>
                 /\ th'[t].pc = "done"
                 /\ th'[t].res.err # "nil"
                 /\ UNCHANGED <<cacheVars, cleanBytesCapacity>>]_vars

\* C12 witness: a Permanent put of a block of an unknown type has returned
\* its error on a cache that holds transient and permanent blocks.
C12_Witness ==
    \E t \in Threads :
        /\ Returned(t, "Put")
        /\ th[t].block = UnknownBlock
        /\ th[t].lifetime = "PermanentEntry"
        /\ th[t].res.err = "UnknownBlockType"
        /\ cleanTransient # <<>>
        /\ PermanentIDs # {}

\* C13: CheckForKnownPtr and DeleteKnownPtr called with an indirect file
\* block return NotDirectFileBlock in the same step, with or without an
\* index, and change nothing; DeleteKnownPtr with a direct file block
\* returns ok, takes at most the entry of (tlf, hash of the plaintext) out
\* of the index and leaves the transient cache, the permanent map,
\* cleanTotalBytes and the capacity as they were.
C13_KnownPtrCalls ==
    [][\A t \in Threads :
         /\ (th[t].pc = "idle" /\ th'[t].op \in {"CheckForKnownPtr", "DeleteKnownPtr"}
               /\ th'[t].block.IsInd) =>
                /\ th'[t].pc = "done"
                /\ th'[t].res.err = "NotDirectFileBlock"
                /\ th'[t].res.ptr = NoPtr
                /\ UNCHANGED <<cacheVars, cleanBytesCapacity>>
         /\ (th[t].pc = "idle" /\ th'[t].op = "DeleteKnownPtr" /\ ~th'[t].block.IsInd) =>
                LET key == idCacheKey(th'[t].tlf, DoRawDefaultHash(th'[t].block.Contents))
                IN  /\ th'[t].pc = "done"
                    /\ th'[t].res.err = "nil"
                    /\ ids' = LruWithout(ids, key)
                    /\ UNCHANGED <<cleanTransient, cleanPermanent, cleanTotalBytes,
                                   cleanBytesCapacity>>]_vars

\* C13 witness: DeleteKnownPtr has returned NotDirectFileBlock on a cache
\* built without an index, which holds a permanent block.
C13_Witness ==
    \E t \in Threads :
        /\ Returned(t, "DeleteKnownPtr")
        /\ th[t].res.err = "NotDirectFileBlock"
        /\ ~HasTransient
        /\ PermanentIDs # {}

\* C14: SetCleanBytesCapacity(c) stores c as the capacity in one step and
\* leaves the transient cache, the permanent map, the index and
\* cleanTotalBytes as they were, also when c is below cleanTotalBytes; no
\* other step changes the capacity; makeRoomForSize loads the capacity in
\* force when it takes bytesLock, and its loop and final check compare
\* against the value loaded.
C14_SetCapacity ==
    [][/\ \A t \in Threads :
            /\ (th[t].pc = "idle" /\ th'[t].op = "SetCleanBytesCapacity") =>
                   /\ cleanBytesCapacity' = th'[t].capacity
                   /\ th'[t].pc = "done"
                   /\ UNCHANGED cacheVars
            /\ (th[t].pc = "mr_lock" /\ th'[t].pc = "mr_loop") =>
                   th'[t].cleanBytesCapacity = cleanBytesCapacity
            /\ (th[t].pc \in {"mr_loop", "mr_cmp", "mr_break", "mr_setlen", "mr_remove",
                              "mr_evict", "mr_relock", "mr_final"}
                  /\ th'[t].pc # "done") =>
                   th'[t].cleanBytesCapacity = th[t].cleanBytesCapacity
            /\ (th[t].pc = "mr_loop" /\ th'[t].pc # "mr_loop") =>
                   th'[t].pc = IF cleanTotalBytes + getCachedBlockSize(th[t].block)
                                    > th[t].cleanBytesCapacity
                               THEN "mr_cmp" ELSE "mr_final"
            /\ (th[t].pc = "mr_final" /\ th'[t].pc # "mr_final") =>
                   th'[t].transientCacheHasRoom
                     = (cleanTotalBytes + getCachedBlockSize(th[t].block)
                          <= th[t].cleanBytesCapacity)
       /\ cleanBytesCapacity' # cleanBytesCapacity =>
            \E t \in Threads : th[t].pc = "idle" /\ th'[t].op = "SetCleanBytesCapacity"]_vars

\* C14 witness: SetCleanBytesCapacity has returned with a capacity below
\* cleanTotalBytes, the transient block still in place, while another
\* thread is in makeRoomForSize with the capacity it loaded before.
C14_Witness ==
    \E t, u \in Threads :
        /\ Returned(t, "SetCleanBytesCapacity")
        /\ cleanBytesCapacity = th[t].capacity
        /\ cleanBytesCapacity < cleanTotalBytes
        /\ cleanTransient # <<>>
        /\ th[u].pc = "mr_final"
        /\ th[u].cleanBytesCapacity # cleanBytesCapacity

\* C15: when a sequential caller has returned from the second of two puts
\* with the same pointer, folder, block, lifetime and prefetch flag, called
\* one right after the other, the entries of the transient cache, of the
\* permanent map and of the index, and cleanTotalBytes, are those the first
\* put left (the order of use of the LRU entries aside), and the second put
\* returns what the first returned.
C15_PutTwice ==
    \A t \in Threads :
        (Returned(t, "Put") /\ hist.repeat.pending) =>
            /\ LruEntries(cleanTransient) = hist.repeat.transient
            /\ cleanPermanent = hist.repeat.permanent
            /\ LruEntries(ids) = hist.repeat.ids
            /\ cleanTotalBytes = hist.repeat.bytes
            /\ th[t].res.err = hist.repeat.err

\* C15 witness: the second of two equal Transient puts of a direct file
\* block has returned ok, with two transient blocks and a permanent block
\* in the cache.
C15_Witness ==
    \E t \in Threads :
        /\ Returned(t, "Put")
        /\ hist.repeat.pending
        /\ th[t].lifetime = "TransientEntry"
        /\ IsDirectFileBlock(th[t].block)
        /\ th[t].res.err = "nil"
        /\ th[t].wasInCache
        /\ Len(cleanTransient) > 1
        /\ PermanentIDs # {}

\* C16 as stated, its last part: a put that has returned an error has left
\* no entry in the index that was not there when it was called.
C16_FailedPutLeavesNoEntry ==
    \A t \in Threads :
        (Returned(t, "Put") /\ th[t].res.err # "nil" /\ ~th[t].knownAtCall) =>
            ~LruContains(ids, KnownPtrKey(th[t].tlf, th[t].block))

\* C16 amended: every entry of the index was recorded by the first step of
\* a Transient put of a direct file block, whose ID it holds: no other step
\* adds or changes an entry, so a put that fails its type switch, or has
\* another lifetime, leaves none.  When such a put has returned ok the
\* block is in the transient cache; when it has returned cachePutCacheFull
\* the block never was, and the entry recorded for it is in the index.
C16_EntriesRecordedByTransientPuts ==
    /\ [](\A t \in Threads :
            (/\ Returned(t, "Put")
             /\ HasTransient
             /\ th[t].lifetime = "TransientEntry"
             /\ IsDirectFileBlock(th[t].block)) =>
                /\ LruContains(ids, KnownPtrKey(th[t].tlf, th[t].block))
                /\ LruValue(ids, KnownPtrKey(th[t].tlf, th[t].block)).ID = th[t].ptr.ID
                /\ th[t].res.err \in {"nil", "cachePutCacheFull"}
                /\ (th[t].res.err = "nil") = (th[t].ptr.ID \in TransientIDs))
    /\ [](~HasTransient => ids = <<>>)
    /\ [][\A e \in LruEntries(ids') \ LruEntries(ids) :
             \E t \in Threads :
                 /\ th[t].pc = "idle"
                 /\ th'[t].op = "Put"
                 /\ th'[t].lifetime = "TransientEntry"
                 /\ IsDirectFileBlock(th'[t].block)
                 /\ e.key = KnownPtrKey(th'[t].tlf, th'[t].block)
                 /\ e.value.ID = th'[t].ptr.ID]_vars

\* C16 witness: a Transient put of a direct file block has returned
\* cachePutCacheFull, the block not in the transient cache, and has left an
\* entry for a plaintext the index did not know.
C16_Witness ==
    \E t \in Threads :
        /\ Returned(t, "Put")
        /\ th[t].res.err = "cachePutCacheFull"
        /\ IsDirectFileBlock(th[t].block)
        /\ ~th[t].knownAtCall
        /\ th[t].ptr.ID \notin TransientIDs
        /\ LruContains(ids, KnownPtrKey(th[t].tlf, th[t].block))

\* C17 as stated: under fair scheduling every operation a thread has
\* started returns.
C17_EveryOperationReturns ==
    \A t \in Threads : (th[t].pc \notin {"idle", "done"}) ~> (th[t].pc = "done")

\* The places of a method where the thread's next step is a call on the
\* transient LRU (Len, Get, Add, RemoveOldest, Remove) or runs inside one.
LruCallPcs ==
    {"put_get", "put_add", "put_evict", "mr_start", "mr_cmp", "mr_setlen", "mr_remove",
     "mr_evict", "dt_remove", "dt_evict"}

\* The step is thread t's, and it is a call on the transient LRU or the
\* eviction callback of one.
LruStep(t) ==
    /\ th'[t] # th[t]
    /\ \/ th[t].pc \in LruCallPcs
       \/ cleanTransient' # cleanTransient
       \/ lruLock' # lruLock

\* C18: a thread holds bytesLock exactly between the Lock of makeRoomForSize
\* and its unlock at the top of the loop body, and between the Lock at the
\* end of the body (or before the break) and the return; so it holds it
\* at no call on the transient LRU and in no eviction callback.  The
\* return of makeRoomForSize releases the lock it holds.
C18_BytesLockDroppedAroundLru ==
    /\ [](\A t \in Threads :
            /\ (bytesLock = t) = (th[t].pc \in {"mr_loop", "mr_final"})
            /\ th[t].pc \in LruCallPcs => bytesLock # t
            /\ lruLock = t => bytesLock # t)
    /\ [][\A t \in Threads :
            /\ LruStep(t) => bytesLock # t
            /\ (th[t].pc \in {"mr_lock", "mr_relock", "mr_break"} /\ th'[t] # th[t]) =>
                  /\ bytesLock = 0
                  /\ bytesLock' = t
            /\ (th[t].pc = "mr_cmp" /\ th'[t] # th[t]) =>
                  th'[t].pc = IF th[t].oldLen = Len(cleanTransient)
                              THEN "mr_break" ELSE "mr_setlen"
            /\ (th[t].pc = "mr_final" /\ th'[t] # th[t]) =>
                  /\ bytesLock = t
                  /\ bytesLock' = 0
                  /\ th'[t].pc \in {"put_add", "done"}]_vars

\* C18 witness: a thread is inside the eviction callback of RemoveOldest,
\* holding the LRU mutex, while another thread holds bytesLock in
\* makeRoomForSize.
C18_Witness ==
    \E t, u \in Threads :
        /\ t # u
        /\ th[t].pc = "mr_evict"
        /\ lruLock = t
        /\ bytesLock = u
        /\ th[u].pc \in {"mr_loop", "mr_final"}

\* C19 as stated: two Transient puts of one absent pointer have both
\* charged the block's size and left one entry; once DeleteTransient has
\* removed that entry, cleanTotalBytes is the sum of the sizes of the
\* blocks in the cache.
C19_DoubleInsertSelfCorrects ==
    \A t, u \in Threads :
        (/\ Returned(t, "Put")
         /\ th[t].doubleInsert
         /\ th[t].res.err = "nil"
         /\ Returned(u, "DeleteTransient")
         /\ th[u].ptr.ID = th[t].ptr.ID
         /\ th[t].ptr.ID \notin TransientIDs) =>
            cleanTotalBytes = ResidentBytes

\* The places where a thread runs the eviction callback of the transient
\* LRU: inside Add, RemoveOldest and Remove.
EvictPcs == {"put_evict", "mr_evict", "dt_evict"}

\* C20: an entry leaves the transient cache only in a step of Add,
\* RemoveOldest or Remove that takes its thread into the eviction callback
\* with the removed block; the callback is that thread's next step and
\* leaves cleanTotalBytes at max(0, cleanTotalBytes - size of the block).
\* cleanTotalBytes is never below zero.
C20_RemovalDebitsSaturating ==
    /\ [](cleanTotalBytes >= 0)
    /\ [][/\ \A e \in LruEntries(cleanTransient) :
                e.key \notin TransientIDs' =>
                    \E t \in Threads :
                        /\ th[t].pc \in {"put_add", "mr_remove", "dt_remove"}
                        /\ th'[t].pc \in EvictPcs
                        /\ th'[t].evicted = e.value.block
                        /\ lruLock' = t
                        /\ cleanTotalBytes' = cleanTotalBytes
          /\ \A t \in Threads :
                (th[t].pc \in EvictPcs /\ th'[t] # th[t]) =>
                    LET size == getCachedBlockSize(th[t].evicted)
                    IN  /\ cleanTotalBytes' = IF cleanTotalBytes > size
                                              THEN cleanTotalBytes - size ELSE 0
                        /\ th'[t].pc \notin EvictPcs
                        /\ cleanTransient' = cleanTransient]_vars

\* C20 witness: an entry has been removed and the callback is about to
\* debit a block larger than what cleanTotalBytes holds.
C20_Witness ==
    \E t \in Threads :
        /\ th[t].pc \in EvictPcs
        /\ lruLock = t
        /\ cleanTotalBytes < getCachedBlockSize(th[t].evicted)

\* The place of an ID in the caller's list of latest uses.
UsedAt(id) == CHOOSE i \in 1..Len(hist.recency) : hist.recency[i] = id

\* The IDs of the transient cache in its own order, oldest first.
TransientOrder == [i \in 1..Len(cleanTransient) |-> cleanTransient[i].key]

\* C21: in sequential use, between calls the transient cache orders its
\* entries as the caller's latest uses of them (successful Transient puts
\* and transient Get hits), and an entry that leaves the cache in a step
\* other than DeleteTransient's Remove is, of the entries then in the cache,
\* the one whose latest use is the oldest.
C21_VictimIsLeastRecentlyUsed ==
    /\ []((\A t \in Threads : th[t].pc = "idle") => TransientOrder = hist.recency)
    /\ [][\A id \in TransientIDs \ TransientIDs' :
             \E t \in Threads :
                 /\ th'[t] # th[t]
                 /\ th[t].pc \in {"mr_remove", "put_add", "dt_remove"}
                 /\ th[t].pc # "dt_remove" =>
                       /\ TransientIDs \subseteq
                              {hist.recency[i] : i \in 1..Len(hist.recency)}
                       /\ \A other \in TransientIDs \ {id} :
                              UsedAt(id) < UsedAt(other)]_vars

\* C21 witness: makeRoomForSize has just evicted the older of two entries;
\* the one used later is the one left.
C21_Witness ==
    \E t \in Threads :
        /\ th[t].pc = "mr_evict"
        /\ Len(hist.recency) = 2
        /\ TransientIDs = {hist.recency[2]}

\* C22 as stated: a Transient put that has returned cachePutCacheFull left
\* the loop of makeRoomForSize at a moment when the transient cache was
\* empty.  The loop is left without room only through its break, where
\* oldLen is the length the cache then has.
C22_FullOnlyWhenNothingToEvict ==
    \A t \in Threads :
        (/\ Returned(t, "Put")
         /\ th[t].lifetime = "TransientEntry"
         /\ th[t].res.err = "cachePutCacheFull"
         /\ HasTransient) =>
            th[t].oldLen = 0

C24_PrefetchedNeverCleared ==
    [][\A id \in TransientIDs \cap TransientIDs' :
          (/\ LruValue(cleanTransient, id).hasPrefetched
           /\ \E u \in Threads :
                 /\ Returned(u, "Put")
                 /\ th[u].lifetime = "TransientEntry"
                 /\ th[u].argHasPrefetched
                 /\ th[u].res.err = "nil"
                 /\ th[u].ptr.ID = id) =>
              LruValue(cleanTransient', id).hasPrefetched]_vars

\* cleanTotalBytes is within the capacity, and every thread that has
\* loaded the capacity in makeRoomForSize holds the value now in force.
WithinCapacity ==
    /\ cleanTotalBytes <= cleanBytesCapacity
    /\ \A t \in Threads :
          th[t].pc \in {"mr_loop", "mr_cmp", "mr_break", "mr_setlen", "mr_remove",
                        "mr_evict", "mr_relock", "mr_final"} =>
              th[t].cleanBytesCapacity = cleanBytesCapacity

\* The step is the charge of a Permanent put, or changes the capacity.
ChargesPermanentOrSetsCapacity ==
    \/ cleanBytesCapacity' # cleanBytesCapacity
    \/ \E t \in Threads :
          /\ th[t].pc = "mr_final"
          /\ th[t].lifetime = "PermanentEntry"
          /\ th'[t] # th[t]

\* C25: a new cache has cleanTotalBytes within its capacity, and every
\* step of every interleaving keeps it so, except the charge of a Permanent
\* put and a change of the capacity.  So while there is no Permanent put
\* and the capacity is not changed, cleanTotalBytes <= cleanBytesCapacity;
\* a Transient put tests and charges in one hold of bytesLock.
C25_TransientStaysWithinCapacity ==
    /\ WithinCapacity
    /\ [][(WithinCapacity /\ ~ChargesPermanentOrSetsCapacity) => WithinCapacity']_vars
    /\ [][\A t \in Threads :
            (th[t].pc = "mr_final" /\ th[t].lifetime = "TransientEntry" /\ th'[t] # th[t]) =>
                /\ bytesLock = t
                /\ cleanTotalBytes' \in
                      {cleanTotalBytes, cleanTotalBytes + getCachedBlockSize(th[t].block)}
                /\ cleanTotalBytes' <= th[t].cleanBytesCapacity \/
                      cleanTotalBytes' = cleanTotalBytes]_vars

\* C25 witness: two Transient puts are in makeRoomForSize on a cache with
\* nothing in its permanent map; each block fits beside what is charged,
\* the two together do not.  One holds bytesLock at the final test, the
\* other waits for the lock.
C25_Witness ==
    \E t, u \in Threads :
        /\ t # u
        /\ WithinCapacity
        /\ PermanentIDs = {}
        /\ th[t].pc = "mr_final"
        /\ th[u].pc = "mr_lock"
        /\ th[t].lifetime = "TransientEntry"
        /\ th[u].lifetime = "TransientEntry"
        /\ cleanTotalBytes + getCachedBlockSize(th[t].block) <= cleanBytesCapacity
        /\ cleanTotalBytes + getCachedBlockSize(th[u].block) <= cleanBytesCapacity
        /\ cleanTotalBytes + getCachedBlockSize(th[t].block)
              + getCachedBlockSize(th[u].block) > cleanBytesCapacity

\* The step is the call of a PermanentEntry put of a directory or file
\* block by thread t.
CallsPermanentPut(t) ==
    /\ th[t].pc = "idle"
    /\ th'[t].op = "Put"
    /\ th'[t].lifetime = "PermanentEntry"
    /\ Cacheable(th'[t].block)

\* C26: in sequential use a Permanent put of an ID that is not in the
\* permanent map stores the block and goes on to makeRoomForSize, which
\* evicts the oldest transient entry only while cleanTotalBytes + size is
\* over the capacity, and returns with the charged total within the
\* capacity or with the transient cache empty.  A Permanent put of an ID
\* that is in the map overwrites the block and returns ok at once, with the
\* transient cache and cleanTotalBytes as they were.
C26_PermanentPutMakesRoom ==
    /\ [](\A t \in Threads :
            (ReturnedPermanentPut(t) /\ ~th[t].wasInCache /\ HasTransient) =>
                \/ cleanTotalBytes <= th[t].cleanBytesCapacity
                \/ cleanTransient = <<>>)
    /\ [][\A t \in Threads :
            /\ CallsPermanentPut(t) =>
                  /\ cleanPermanent'[th'[t].ptr.ID] = th'[t].block
                  /\ cleanTransient' = cleanTransient
                  /\ cleanTotalBytes' = cleanTotalBytes
                  /\ IF cleanPermanent[th'[t].ptr.ID] # NoBlock
                     THEN /\ th'[t].pc = "done"
                          /\ th'[t].res.err = "nil"
                     ELSE th'[t].pc = "mr_start"
            /\ (/\ th[t].pc = "mr_remove"
                /\ th[t].lifetime = "PermanentEntry"
                /\ th'[t] # th[t]
                /\ cleanTransient # <<>>) =>
                  /\ cleanTransient' = Tail(cleanTransient)
                  /\ cleanTotalBytes + getCachedBlockSize(th[t].block)
                        > th[t].cleanBytesCapacity]_vars

\* C26 witness: a Permanent put of a new ID has evicted the oldest
\* transient entry and left a younger one; a block is in the permanent map
\* under another ID.
C26_Witness ==
    \E t \in Threads :
        /\ th[t].pc = "mr_evict"
        /\ th[t].lifetime = "PermanentEntry"
        /\ cleanTransient # <<>>
        /\ PermanentIDs \ {th[t].ptr.ID} # {}

\* C27: on a cache built with transientCapacity 0 cleanTotalBytes is 0,
\* and the transient cache and the index hold nothing, in every state.  A
\* Permanent put of a directory or file block returns ok with the block in
\* the permanent map, a Transient put of one returns ok, and
\* CheckForKnownPtr of a direct file block returns the zero pointer and no
\* error.
C27_NoTransientNoBytes ==
    transientCapacity = 0 =>
        /\ cleanTotalBytes = 0
        /\ cleanTransient = <<>>
        /\ ids = <<>>
        /\ \A t \in Threads :
              /\ ReturnedPermanentPut(t) =>
                    /\ th[t].res.err = "nil"
                    /\ cleanPermanent[th[t].ptr.ID] = th[t].block
              /\ ReturnedTransientPut(t) => th[t].res.err = "nil"
              /\ (Returned(t, "CheckForKnownPtr") /\ IsDirectFileBlock(th[t].block)) =>
                    /\ th[t].res.err = "nil"
                    /\ th[t].res.ptr = NoPtr

\* C27 witness: on a cache built with transientCapacity 0 a Permanent put
\* of an ID new to the map has returned, and another block is in the map.
C27_Witness ==
    \E t \in Threads :
        /\ transientCapacity = 0
        /\ ReturnedPermanentPut(t)
        /\ ~th[t].wasInCache
        /\ getCachedBlockSize(th[t].block) > 0
        /\ PermanentIDs \ {th[t].ptr.ID} # {}

====
